---------------------------- MODULE Spec2Model ----------------------------
(***************************************************************************)
(* budgetme: a spending ledger (src/src/data.rs) that is loaded, accrued,  *)
(* changed by one command and written back after a reconciliation check    *)
(* against a fresh copy of the persisted ledger (src/src/main.rs, main).   *)
(*                                                                         *)
(* Money is f32 in the source.  Every amount of the model is a multiple of *)
(* half a dollar of small magnitude, a value f32 represents and adds,      *)
(* subtracts, halves and compares exactly, so the model keeps money as an  *)
(* integer count of quarter dollars (Unit per dollar).  A cringe factor is *)
(* kept in the same fixed point (Unit is the factor 1.0).  A sum or        *)
(* difference that needs more than the 24 bits of an f32 significand is    *)
(* rounded as f32 rounds it (F32).                                         *)
(***************************************************************************)
EXTENDS Integers, Sequences, FiniteSets, TLC

\* ------------------------------------------------------------------ bounds
MaxNow == 2        \* the clock runs over 0..MaxNow
MaxItems == 2      \* history and redo_stack hold at most this many entries together
MaxRuns == 2       \* invocations started in one behaviour of the program
MaxFailures == 1   \* S3 requests and HTTP clients that fail in one behaviour

\* --------------------------------------------------------- representation
Unit == 4          \* one dollar, in quarter dollars
TicksPerDay == 2   \* clock readings that fall on the same calendar day

Dollars(n) == n * Unit
Day(t) == t \div TicksPerDay       \* num_days_from_ce of a clock reading

NoData == "NoData"                 \* the value of a variable not in use

\* Option<T>
None == <<>>
Some(x) == <<x>>
IsNone(o) == o = <<>>
Unwrap(o) == o[1]
NoSpecific == "NoSpecific"         \* Option<String>::None
DATA_VERSION == "DATA_VERSION"     \* crate::DATA_VERSION

\* ------------------------------------------------------------------ inputs
Reasons == {"coffee", "Cafe"}
SpendReasons == {"Cafe"}
Specifics == {NoSpecific}
Amounts == {Dollars(-1), Dollars(0), Dollars(4), Dollars(12)}

\* str::to_ascii_lowercase on the keywords of the model
ToAsciiLowercase(s) == CASE s = "Cafe" -> "cafe"
                         [] s = "Coffee" -> "coffee"
                         [] s = "Food" -> "food"
                         [] OTHER -> s

\* --------------------------------------------------------------- the ledger
DefaultBalance == Dollars(10)
DefaultRate == Dollars(5)
EmptyMap == [k \in {} |-> 0]

\* Data::new
DataNew(t) ==
  [version |-> DATA_VERSION, history |-> <<>>, redo_stack |-> <<>>,
   balance |-> DefaultBalance, debt |-> 0, rate |-> Some(DefaultRate),
   last_updated |-> t, cringe_factors |-> EmptyMap, synonyms |-> EmptyMap]

\* an equality that does not ignore last_updated
DataEqAll(a, b) == a = b

\* #[derivative(PartialEq)] on Data: every field but last_updated
DataEq(a, b) ==
  /\ a.version = b.version
  /\ a.history = b.history
  /\ a.redo_stack = b.redo_stack
  /\ a.balance = b.balance
  /\ a.debt = b.debt
  /\ a.rate = b.rate
  /\ a.cringe_factors = b.cringe_factors
  /\ a.synonyms = b.synonyms

\* the f32 nearest to a count n of quarter dollars, |n| < 2^28: 24 significant
\* bits, ties to the even significand
F32(n) ==
  LET a == IF n < 0 THEN -n ELSE n
      ulp == IF a < 16777216 THEN 1
             ELSE IF a < 33554432 THEN 2
             ELSE IF a < 67108864 THEN 4
             ELSE IF a < 134217728 THEN 8 ELSE 16
      q == a \div ulp
      r == a % ulp
      m == IF 2 * r > ulp \/ (2 * r = ulp /\ q % 2 = 1) THEN (q + 1) * ulp
           ELSE q * ulp
  IN IF n < 0 THEN -m ELSE m

\* Data::total_balance
TotalBalance(d) == F32(d.balance - d.debt)

\* x / 2. in f32 (exact: x is a multiple of Unit wherever it is halved)
Half(x) == x \div 2

\* an update without the assertion
UpdateUnchecked(d, t) == FALSE

\* Data::update: the assertion current >= last fails
UpdatePanics(d, t) == Day(t) < Day(d.last_updated)

\* an update that counts the current day as elapsed
UpdateCountsToday(d, rate, t) ==
  [d EXCEPT !.balance = d.balance + rate * (Day(t) - Day(d.last_updated) + 1),
            !.last_updated = t]

\* an update that repays debt from the whole of the gains
UpdateDivertsAll(d, rate, t) ==
  LET gross == rate * (Day(t) - Day(d.last_updated))
      paid == IF d.debt > gross THEN gross ELSE d.debt
  IN [d EXCEPT !.debt = d.debt - paid, !.balance = d.balance + gross - paid,
               !.last_updated = t]

\* an update that leaves last_updated where it was
UpdateKeepsStamp(d, rate, t) ==
  LET elapsed == Day(t) - Day(d.last_updated)
      gross == F32(rate * elapsed)
      garnished == d.debt > 0 /\ d.debt > Half(gross)
      cleared == d.debt > 0 /\ ~(d.debt > Half(gross))
      net_gains == IF garnished THEN Half(gross)
                   ELSE IF cleared THEN F32(gross - d.debt) ELSE gross
      debt == IF garnished THEN F32(d.debt - Half(gross))
              ELSE IF cleared THEN 0 ELSE d.debt
  IN [d EXCEPT !.debt = debt, !.balance = F32(d.balance + net_gains)]

\* Data::update
Update(d, rate, t) ==
  LET elapsed == Day(t) - Day(d.last_updated)
      gross == F32(rate * elapsed)
      garnished == d.debt > 0 /\ d.debt > Half(gross)
      cleared == d.debt > 0 /\ ~(d.debt > Half(gross))
      net_gains == IF garnished THEN Half(gross)
                   ELSE IF cleared THEN F32(gross - d.debt) ELSE gross
      debt == IF garnished THEN F32(d.debt - Half(gross))
              ELSE IF cleared THEN 0 ELSE d.debt
  IN [d EXCEPT !.debt = debt, !.balance = F32(d.balance + net_gains),
               !.last_updated = t]

\* Data::has_synonyms
HasSynonyms(d, key) == ToAsciiLowercase(key) \in DOMAIN d.synonyms

\* Data::get_synonyms (called only where has_synonyms holds)
GetSynonyms(d, key) ==
  d.synonyms[ToAsciiLowercase(key)] \cup {ToAsciiLowercase(key)}

\* a lookup that reads only the keyword's own entry, never its synonyms
GetCringinessOwn(d, keyword) ==
  LET k == ToAsciiLowercase(keyword)
  IN IF k \in DOMAIN d.cringe_factors THEN {d.cringe_factors[k]} ELSE {Unit}

\* Data::get_cringiness: the values the loop over the unordered synonym set
\* can return (HashSet iteration order is not fixed)
GetCringiness(d, keyword) ==
  LET k == ToAsciiLowercase(keyword)
      carriers == IF HasSynonyms(d, k)
                  THEN {s \in GetSynonyms(d, k) : s \in DOMAIN d.cringe_factors}
                  ELSE {}
  IN IF carriers = {} THEN {Unit} ELSE {d.cringe_factors[s] : s \in carriers}

\* HashMap::insert
MapInsert(m, k, v) == [x \in DOMAIN m \cup {k} |-> IF x = k THEN v ELSE m[x]]

\* Data::set_cringe: the ledgers it can leave (one per synonym the loop can
\* meet first)
SetCringe(d, keyword, factor) ==
  LET k == ToAsciiLowercase(keyword)
      carriers == IF HasSynonyms(d, k)
                  THEN {s \in GetSynonyms(d, k) : s \in DOMAIN d.cringe_factors}
                  ELSE {}
  IN IF carriers = {}
     THEN {[d EXCEPT !.cringe_factors = MapInsert(d.cringe_factors, k, factor)]}
     ELSE {[d EXCEPT !.cringe_factors = MapInsert(d.cringe_factors, s, factor)]
             : s \in carriers}

\* Data::set_synonym
SetSynonym(d, first, second) ==
  LET f == ToAsciiLowercase(first)
      s == ToAsciiLowercase(second)
      m0 == d.synonyms
      m1 == MapInsert(m0, f, (IF f \in DOMAIN m0 THEN m0[f] ELSE {}) \cup {s})
      m2 == MapInsert(m1, s, (IF s \in DOMAIN m1 THEN m1[s] ELSE {}) \cup {f})
  IN [d EXCEPT !.synonyms = m2]

\* HistoryItem
HistoryItem(amount, reason, specific, t) ==
  [amount |-> amount, reason |-> reason, specific |-> specific, time |-> t]

Last(s) == s[Len(s)]
Front(s) == SubSeq(s, 1, Len(s) - 1)

\* Budget::undo
UndoPanics(d) == Len(d.history) = 0

\* an undo that forgets the entry it popped
UndoDropsEntry(d) ==
  [d EXCEPT !.history = Front(d.history),
            !.balance = d.balance + Last(d.history).amount]

Undo(d) ==
  LET last_item == Last(d.history)
  IN [d EXCEPT !.history = Front(d.history),
               !.balance = F32(d.balance + last_item.amount),
               !.redo_stack = Append(d.redo_stack, last_item)]

\* a redo that puts the entry back at the head of history
RedoAtHead(d) ==
  LET last_item == Last(d.redo_stack)
  IN [d EXCEPT !.redo_stack = Front(d.redo_stack),
               !.balance = F32(d.balance - last_item.amount),
               !.history = <<last_item>> \o d.history]

\* Budget::redo
RedoPanics(d) == Len(d.redo_stack) = 0

\* a redo that leaves the entry on redo_stack
RedoKeepsStack(d) ==
  [d EXCEPT !.balance = d.balance - Last(d.redo_stack).amount,
            !.history = Append(d.history, Last(d.redo_stack))]

Redo(d) ==
  LET last_item == Last(d.redo_stack)
  IN [d EXCEPT !.redo_stack = Front(d.redo_stack),
               !.balance = F32(d.balance - last_item.amount),
               !.history = Append(d.history, last_item)]

\* a garnish that clears the balance without booking the debt
GarnishForgives(d) ==
  IF d.balance >= 0 THEN d ELSE [d EXCEPT !.balance = 0]

\* a garnish that books the negative balance itself as the debt
GarnishSigned(d) ==
  IF d.balance >= 0 THEN d
  ELSE [d EXCEPT !.debt = F32(d.debt + d.balance), !.balance = 0]

\* Budget::garnish
Garnish(d) ==
  IF d.balance >= 0 THEN d
  ELSE [d EXCEPT !.debt = F32(d.debt - d.balance), !.balance = 0]

\* amount * cringiness in f32 (exact: the amounts spent are whole dollars)
Scaled(amount, factor) == F32((amount * factor) \div Unit)

\* Budget::spend: the "Amount must be positive!" message is printed
SpendComplains(amount) == amount <= 0

\* Budget::spend: the "Request is over budget!" branch
SpendRefused(d, amount, factor, loan) ==
  F32(d.balance - Scaled(amount, factor)) < 0 /\ ~loan

\* a spend whose budget test forgets the cringe factor
SpendUnscaledTest(d, amount, factor, reason, specific, loan, t) ==
  LET amount_scaled == Scaled(amount, factor)
  IN IF d.balance - amount < 0 /\ ~loan THEN d
     ELSE [d EXCEPT !.history = Append(d.history,
                                HistoryItem(amount_scaled, reason, specific, t)),
                    !.balance = d.balance - amount_scaled]

\* a spend that records the amount as given, not the scaled one
SpendRawEntry(d, amount, factor, reason, specific, loan, t) ==
  LET amount_scaled == Scaled(amount, factor)
  IN IF d.balance - amount_scaled < 0 /\ ~loan THEN d
     ELSE [d EXCEPT !.history = Append(d.history,
                                HistoryItem(amount, reason, specific, t)),
                    !.balance = d.balance - amount_scaled]

\* Budget::spend, with the factor get_cringiness returned
Spend(d, amount, factor, reason, specific, loan, t) ==
  LET amount_scaled == Scaled(amount, factor)
      new_balance == F32(d.balance - amount_scaled)
  IN IF new_balance < 0 /\ ~loan THEN d
     ELSE [d EXCEPT !.history = Append(d.history,
                                HistoryItem(amount_scaled, reason, specific, t)),
                    !.balance = new_balance]

\* Budget::set_cfg, CfgKey::Rate
SetRate(d, rate) == [d EXCEPT !.rate = Some(rate)]


\* ---------------------------------------------------------- reconciliation
Abs(x) == IF x < 0 THEN -x ELSE x

\* Budget::verify_against: old_data_updated, the fetched ledger accrued to now
\* at the rate of the local one
OldDataUpdated(self, old_data, t) ==
  Update([old_data EXCEPT !.rate = self.rate], Unwrap(self.rate), t)

\* Budget::verify_against panics where Data::update does
VerifyPanics(old_data, t) == UpdatePanics(old_data, t)

\* a bound check that forgets the redo stacks
TooDifferentHistoryOnly(self, o) ==
  Abs(Len(o.history) - Len(self.history)) > 2

\* Budget::verify_against: the bound check
TooDifferent(self, o) ==
  \/ Abs(Len(o.history) - Len(self.history)) > 2
  \/ Abs(Len(o.redo_stack) - Len(self.redo_stack)) > 2

\* the undo case comparing balance where total_balance is meant
VerifyMissingEntryBalance(self, o) ==
  IF Front(o.history) = self.history
  THEN IF self.balance = o.balance + Last(o.history).amount
       THEN [ok |-> TRUE, class |-> "undone"]
       ELSE [ok |-> FALSE, class |-> "missing entry mismatch"]
  ELSE [ok |-> FALSE, class |-> "incompatible"]

\* Budget::verify_against: the old data holds more entries (an undo is assumed)
VerifyMissingEntry(self, o) ==
  IF Front(o.history) = self.history
  THEN LET last_item == Last(o.history)
           o1 == [o EXCEPT !.balance = F32(o.balance + last_item.amount)]
       IN IF TotalBalance(self) = TotalBalance(o1)
          THEN [ok |-> TRUE, class |-> "undone"]
          ELSE [ok |-> FALSE, class |-> "missing entry mismatch"]
  ELSE [ok |-> FALSE, class |-> "incompatible"]

\* the spend case comparing balance where total_balance is meant
VerifyNewEntryBalance(self, o) ==
  IF Front(self.history) = o.history
  THEN IF self.balance = o.balance - Last(self.history).amount
       THEN [ok |-> TRUE, class |-> "added"]
       ELSE [ok |-> FALSE, class |-> "new entry mismatch"]
  ELSE [ok |-> FALSE, class |-> "incompatible"]

\* a spend case that never compares the older entries
VerifyNewEntryNoPrefix(self, o) ==
  LET last_item == Last(self.history)
      o1 == [o EXCEPT !.balance = F32(o.balance - last_item.amount)]
  IN IF TotalBalance(self) = TotalBalance(o1)
     THEN [ok |-> TRUE, class |-> "added"]
     ELSE [ok |-> FALSE, class |-> "new entry mismatch"]

\* Budget::verify_against: the new data holds more entries (a spend is assumed)
VerifyNewEntry(self, o) ==
  IF Front(self.history) = o.history
  THEN LET last_item == Last(self.history)
           o1 == [o EXCEPT !.balance = F32(o.balance - last_item.amount)]
       IN IF TotalBalance(self) = TotalBalance(o1)
          THEN [ok |-> TRUE, class |-> "added"]
          ELSE [ok |-> FALSE, class |-> "new entry mismatch"]
  ELSE [ok |-> FALSE, class |-> "incompatible"]

\* a last comparison on balance where total_balance is meant
VerifyFallbackBalance(self, o) ==
  IF self.history = o.history /\ self.balance = o.balance
  THEN [ok |-> TRUE, class |-> "fallback"]
  ELSE [ok |-> FALSE, class |-> "unknown"]

\* Budget::verify_against: the last comparison
VerifyFallback(self, o) ==
  IF self.history = o.history /\ TotalBalance(self) = TotalBalance(o)
  THEN [ok |-> TRUE, class |-> "fallback"]
  ELSE [ok |-> FALSE, class |-> "unknown"]

\* Budget::verify_against: the result and the branch that gave it (class names
\* the message printed: "diverge", "incompatible", "unknown", the two
\* mismatch messages, or the silent successes)
VerifyAgainst(self, old_data, t) ==
  LET o == OldDataUpdated(self, old_data, t)
  IN IF DataEq(self, o) THEN [ok |-> TRUE, class |-> "equal"]
     ELSE IF TooDifferent(self, o) THEN [ok |-> FALSE, class |-> "diverge"]
     ELSE IF Len(o.history) > 0 /\ Len(o.history) > Len(self.history)
          THEN VerifyMissingEntry(self, o)
     ELSE IF Len(self.history) > 0 /\ Len(self.history) > Len(o.history)
          THEN VerifyNewEntry(self, o)
     ELSE VerifyFallback(self, o)


\* ------------------------------------------------------------------- state
VARIABLES
  now,       \* the clock every Local::now() reads
  ledger,    \* SpecOps: the Data of one Budget
  last,      \* SpecOps: the last method called on it, with its arguments and
             \*          how it ended
  local,     \* SpecVerify: self.data of the Budget that verifies
  remote,    \* SpecVerify: old_data, the ledger fetched for the comparison
  how,       \* SpecVerify: how local was made
  verdict,   \* SpecVerify: what verify_against returned
  store,     \* Spec: what data.json holds in each directory and bucket
  config,    \* Spec: what config.json holds
  provider,  \* Spec: the data source of each invocation's data_provider
  fetched,   \* Spec: what the get() of each invocation returned, None again
             \*       once unwrap_or has consumed it
  pc,        \* Spec: where each invocation of main is
  budget,    \* Spec: budget.data of each invocation
  cmd,       \* Spec: the command each invocation was given
  loaded,    \* Spec: what the first fetch of each invocation returned
  old,       \* Spec: what the second fetch of each invocation returned
  runs,      \* Spec: invocations started so far
  failures   \* Spec: requests to S3 that have failed so far

opsVars == <<ledger, last>>
verifyVars == <<local, remote, how, verdict>>
sysVars ==
  <<store, config, provider, fetched, pc, budget, cmd, loaded, old, runs,
    failures>>
vars == <<now, opsVars, verifyVars, sysVars>>

NoVerdict == [ok |-> FALSE, class |-> "none"]

\* the variables of the specifications that are not running
OpsIdle == ledger = NoData /\ last = NoData
VerifyIdle == local = NoData /\ remote = NoData /\ how = "" /\ verdict = NoVerdict
SysIdle ==
  /\ store = NoData /\ pc = NoData /\ budget = NoData /\ cmd = NoData
  /\ config = NoData /\ provider = NoData /\ fetched = NoData
  /\ loaded = NoData /\ old = NoData /\ runs = 0 /\ failures = 0

\* ------------------------------------------- SpecOps: the methods of Budget
NoCall == [op |-> "none", amount |-> 0, factor |-> Unit, reason |-> "",
           loan |-> FALSE, outcome |-> "done"]

Called(op, outcome) == [NoCall EXCEPT !.op = op, !.outcome = outcome]

ItemCount(d) == Len(d.history) + Len(d.redo_stack)

\* the category tables a ledger starts with: none, a factor stored for a
\* keyword without synonyms, and a factor stored within a synonym pair
StartLedgers ==
  {DataNew(0)}
  \cup SetCringe(DataNew(0), "Cafe", 8)
  \cup SetCringe(SetSynonym(DataNew(0), "coffee", "Cafe"), "Cafe", 6)

InitOps ==
  /\ now = 0
  /\ ledger \in StartLedgers
  /\ last = Called("new", "done")
  /\ VerifyIdle
  /\ SysIdle

\* the wall clock advances
OpsClock ==
  /\ now < MaxNow
  /\ now' = now + 1
  /\ UNCHANGED <<ledger, last, verifyVars, sysVars>>

OpsUpdate ==
  /\ last' = Called("update", IF UpdatePanics(ledger, now) THEN "panic" ELSE "done")
  /\ ledger' = IF UpdatePanics(ledger, now) THEN ledger
               ELSE Update(ledger, Unwrap(ledger.rate), now)
  /\ UNCHANGED <<now, verifyVars, sysVars>>

OpsSpend ==
  \E amount \in Amounts, reason \in SpendReasons, specific \in Specifics,
     loan \in BOOLEAN :
    \E factor \in GetCringiness(ledger, ToAsciiLowercase(reason)) :
      /\ SpendRefused(ledger, amount, factor, loan) \/ ItemCount(ledger) < MaxItems
      /\ ledger' = Spend(ledger, amount, factor, reason, specific, loan, now)
      /\ last' = [Called("spend", IF SpendRefused(ledger, amount, factor, loan)
                                  THEN "refused" ELSE "done")
                    EXCEPT !.amount = amount, !.factor = factor,
                           !.reason = reason, !.loan = loan]
      /\ UNCHANGED <<now, verifyVars, sysVars>>

OpsUndo ==
  /\ last' = Called("undo", IF UndoPanics(ledger) THEN "panic" ELSE "done")
  /\ ledger' = IF UndoPanics(ledger) THEN ledger ELSE Undo(ledger)
  /\ UNCHANGED <<now, verifyVars, sysVars>>

OpsRedo ==
  /\ last' = Called("redo", IF RedoPanics(ledger) THEN "panic" ELSE "done")
  /\ ledger' = IF RedoPanics(ledger) THEN ledger ELSE Redo(ledger)
  /\ UNCHANGED <<now, verifyVars, sysVars>>

OpsGarnish ==
  /\ last' = Called("garnish", "done")
  /\ ledger' = Garnish(ledger)
  /\ UNCHANGED <<now, verifyVars, sysVars>>

NextOps ==
  \/ OpsClock
  \/ OpsUpdate
  \/ OpsSpend
  \/ OpsUndo
  \/ OpsRedo
  \/ OpsGarnish

SpecOps == InitOps /\ [][NextOps]_vars


\* ------------------------------------------------- claims on Budget (SpecOps)
\* a step of SpecOps that is a call of spend (last' holds its arguments)
SpendStep == now' = now /\ last'.op = "spend"

\* C9: a spend with amount <= 0 is rejected: it reports the error and leaves
\* history, redo_stack, balance and debt as they were, whatever loan is.
C9_NonPositiveSpendRejected ==
  [][(SpendStep /\ last'.amount <= 0)
       => /\ SpendComplains(last'.amount)
          /\ ledger'.history = ledger.history
          /\ ledger'.redo_stack = ledger.redo_stack
          /\ ledger'.balance = ledger.balance
          /\ ledger'.debt = ledger.debt]_vars

\* C10: a spend without loan whose new balance, balance - amount * multiplier
\* of the reason, is negative is refused and leaves every field of the ledger
\* as it was.
C10_OverBudgetRefused ==
  [][(/\ SpendStep
      /\ ~last'.loan
      /\ last'.factor \in GetCringiness(ledger, last'.reason)
      /\ ledger.balance - Scaled(last'.amount, last'.factor) < 0)
       => (ledger' = ledger /\ last'.outcome = "refused")]_vars

\* C12: a spend that is not refused appends exactly one HistoryItem whose
\* amount is amount * multiplier of the reason and whose reason is the one
\* given, sets balance to the old balance minus that scaled amount, and
\* leaves redo_stack, debt and the earlier history entries as they were.
C12_AcceptedSpend ==
  [][(SpendStep /\ last'.outcome = "done") =>
       /\ last'.factor \in GetCringiness(ledger, last'.reason)
       /\ Len(ledger'.history) = Len(ledger.history) + 1
       /\ Front(ledger'.history) = ledger.history
       /\ Last(ledger'.history).amount = (last'.amount * last'.factor) \div Unit
       /\ Last(ledger'.history).reason = last'.reason
       /\ ledger'.balance = ledger.balance - Last(ledger'.history).amount
       /\ ledger'.redo_stack = ledger.redo_stack
       /\ ledger'.debt = ledger.debt]_vars

\* a spend scaled by a stored factor other than 1 went onto a history that
\* already held an entry
C12_Witness ==
  /\ last.op = "spend"
  /\ last.outcome = "done"
  /\ last.amount > 0
  /\ last.factor = 6
  /\ Len(ledger.history) > 1
  /\ Last(ledger.history).amount = (last.amount * 6) \div Unit

\* C13: undo on a non-empty history removes exactly the last history entry,
\* adds its amount to balance and pushes it onto the tail of redo_stack; the
\* history prefix, the earlier redo_stack and debt are unchanged.
C13_UndoEffect ==
  [][(now' = now /\ last'.op = "undo" /\ Len(ledger.history) > 0) =>
       /\ last'.outcome = "done"
       /\ ledger'.history = Front(ledger.history)
       /\ ledger'.balance = ledger.balance + Last(ledger.history).amount
       /\ ledger'.redo_stack = Append(ledger.redo_stack, Last(ledger.history))
       /\ ledger'.debt = ledger.debt]_vars

\* an undo pushed onto a non-empty redo_stack
C13_Witness ==
  /\ last.op = "undo"
  /\ last.outcome = "done"
  /\ Len(ledger.redo_stack) > 1
  /\ Last(ledger.redo_stack).amount # 0

\* C14: redo on a non-empty redo_stack removes exactly the last redo_stack
\* entry, subtracts its amount from balance and appends it to the tail of
\* history; the rest of redo_stack, the earlier history and debt are unchanged.
C14_RedoEffect ==
  [][(now' = now /\ last'.op = "redo" /\ Len(ledger.redo_stack) > 0) =>
       /\ last'.outcome = "done"
       /\ ledger'.redo_stack = Front(ledger.redo_stack)
       /\ ledger'.balance = ledger.balance - Last(ledger.redo_stack).amount
       /\ ledger'.history = Append(ledger.history, Last(ledger.redo_stack))
       /\ ledger'.debt = ledger.debt]_vars

\* a redo appended to a non-empty history
C14_Witness ==
  /\ last.op = "redo"
  /\ last.outcome = "done"
  /\ Len(ledger.history) > 1
  /\ Last(ledger.history).amount # 0

\* a positive spend scaled by a stored factor has been refused
C10_Witness ==
  /\ last.op = "spend"
  /\ last.outcome = "refused"
  /\ ~last.loan
  /\ last.amount > 0
  /\ last.factor = 6
  /\ ledger.balance >= last.amount
  /\ ledger.balance < Scaled(last.amount, last.factor)


\* ------------------------------------ SpecVerify: verify_against on its own
MaxVLen == 3       \* the longest history compared

ItemA == HistoryItem(Dollars(1), "coffee", NoSpecific, 0)
ItemB == HistoryItem(Dollars(2), "Cafe", NoSpecific, 1)

SeqsUpTo(S, n) == UNION {[1..k -> S] : k \in 0..n}

\* a ledger where cafe and coffee are synonyms and cafe carries the factor 1.5
CafeTables ==
  CHOOSE d \in SetCringe(SetSynonym(DataNew(0), "coffee", "Cafe"), "Cafe", 6) : TRUE

\* the persisted ledgers compared against
Remotes ==
  {[DataNew(lu) EXCEPT !.history = h, !.redo_stack = r, !.debt = debt] :
     h \in SeqsUpTo({ItemA, ItemB}, MaxVLen), r \in {<<>>, <<ItemA>>},
     debt \in {0, Dollars(1)}, lu \in {0, 2}}

\* the in-memory ledgers compared
Locals ==
  {[DataNew(0) EXCEPT !.history = h, !.redo_stack = r, !.balance = b,
                      !.debt = debt, !.rate = Some(rate),
                      !.cringe_factors = tables.cringe_factors,
                      !.synonyms = tables.synonyms] :
     h \in SeqsUpTo({ItemA, ItemB}, MaxVLen),
     r \in {<<>>, <<ItemA>>, <<ItemA, ItemB, ItemA>>},
     b \in {Dollars(9), Dollars(10), Dollars(11)},
     debt \in {0, Dollars(1)},
     rate \in {Dollars(1), DefaultRate},
     tables \in {DataNew(0), CafeTables}}

\* Data::update on the persisted ledger at its own rate: what an invocation
\* holds before its command runs
Accrued(d, t) == Update(d, Unwrap(d.rate), t)

\* local is either drawn freely, or the persisted ledger as an invocation
\* holds it once loaded and accrued
InitVerify ==
  /\ now \in {1, 2}
  /\ remote \in Remotes
  /\ \/ how = "drawn" /\ local \in Locals
     \/ how = "loaded" /\ ~UpdatePanics(remote, now) /\ local = Accrued(remote, now)
  /\ verdict = NoVerdict
  /\ OpsIdle
  /\ SysIdle

\* the invocation runs its command on the loaded ledger
VCommand ==
  /\ how = "loaded"
  /\ \/ how' = "list" /\ local' = local
     \/ ~UndoPanics(local) /\ how' = "undo" /\ local' = Undo(local)
     \/ ~RedoPanics(local) /\ how' = "redo" /\ local' = Redo(local)
     \/ \E amount \in {Dollars(0), Dollars(1)}, reason \in Reasons, loan \in BOOLEAN :
          \E factor \in GetCringiness(local, ToAsciiLowercase(reason)) :
            /\ ~SpendRefused(local, amount, factor, loan)
            /\ how' = "spend"
            /\ local' = Spend(local, amount, factor, reason, NoSpecific, loan, now)
     \/ how' = "set rate" /\ local' = SetRate(local, Dollars(1))
  /\ UNCHANGED <<now, remote, verdict, opsVars, sysVars>>

\* verify_against(local, remote) is called
VVerify ==
  /\ how # "loaded"
  /\ verdict = NoVerdict
  /\ verdict' = IF VerifyPanics(remote, now) THEN [ok |-> FALSE, class |-> "panic"]
                ELSE VerifyAgainst(local, remote, now)
  /\ UNCHANGED <<now, local, remote, how, opsVars, sysVars>>

NextVerify ==
  \/ VCommand
  \/ VVerify

SpecVerify == InitVerify /\ [][NextVerify]_vars


\* ------------------------------------- claims on verify_against (SpecVerify)
\* verify_against has returned
Verified == verdict.class \notin {"none", "panic"}

\* the accrued remote: remote brought to now at local's rate
AccruedRemote == OldDataUpdated(local, remote, now)

RedoWithinBound ==
  Abs(Len(AccruedRemote.redo_stack) - Len(local.redo_stack)) <= 2

\* remote holds one entry more than local, and the rest is local's history
RemoteOneAhead ==
  /\ Len(AccruedRemote.history) = Len(local.history) + 1
  /\ Front(AccruedRemote.history) = local.history

\* local holds one entry more than remote, and the rest is remote's history
LocalOneAhead ==
  /\ Len(local.history) = Len(AccruedRemote.history) + 1
  /\ Front(local.history) = AccruedRemote.history

\* C3: verify(L, L) is true once the remote is aligned to now (it was last
\* accrued today), whatever last_updated is; and the trivial match holds only
\* where every field but last_updated agrees with the accrued remote.
C3_TrivialMatch ==
  Verified =>
    /\ (DataEq(local, remote) /\ Day(remote.last_updated) = Day(now))
         => (verdict.ok /\ verdict.class = "equal")
    /\ verdict.class = "equal"
         => /\ local.version = remote.version
            /\ local.history = remote.history
            /\ local.redo_stack = remote.redo_stack
            /\ local.cringe_factors = remote.cringe_factors
            /\ local.synonyms = remote.synonyms
            /\ local.balance = AccruedRemote.balance
            /\ local.debt = AccruedRemote.debt

\* a ledger with history and debt matched itself under another last_updated
C3_Witness ==
  /\ verdict.class = "equal"
  /\ DataEq(local, remote)
  /\ local.last_updated # remote.last_updated
  /\ Len(local.history) > 0
  /\ local.debt > 0

\* C4 as stated: remote one entry ahead of local on a common prefix is
\* accepted exactly when local's total balance is remote's with the removed
\* amount added back; the result of undo on a copy of remote is accepted.
C4_SingleUndoAsStated ==
  Verified =>
    /\ RemoteOneAhead
         => (verdict.ok <=> TotalBalance(local) = TotalBalance(AccruedRemote)
                               + Last(AccruedRemote.history).amount)
    /\ how = "undo" => verdict.ok

\* C4, amended: the same, where the redo_stack lengths differ by at most 2.
C4_SingleUndo ==
  Verified =>
    /\ (RemoteOneAhead /\ RedoWithinBound)
         => (verdict.ok <=> TotalBalance(local) = TotalBalance(AccruedRemote)
                               + Last(AccruedRemote.history).amount)
    /\ how = "undo" => verdict.ok

\* an undo made a day after the remote was last accrued was accepted
C4_Witness ==
  /\ how = "undo"
  /\ verdict.ok
  /\ verdict.class = "undone"
  /\ RemoteOneAhead
  /\ Day(now) > Day(remote.last_updated)
  /\ remote.debt > 0

\* C5 as stated: local one entry ahead of remote on a common prefix is
\* accepted exactly when local's total balance is remote's less the new
\* amount; the result of an accepted spend or a redo on a copy of remote is
\* accepted.
C5_SingleSpendAsStated ==
  Verified =>
    /\ LocalOneAhead
         => (verdict.ok <=> TotalBalance(local) = TotalBalance(AccruedRemote)
                               - Last(local.history).amount)
    /\ how \in {"spend", "redo"} => verdict.ok

\* C5, amended: the same, where the redo_stack lengths differ by at most 2.
C5_SingleSpend ==
  Verified =>
    /\ (LocalOneAhead /\ RedoWithinBound)
         => (verdict.ok <=> TotalBalance(local) = TotalBalance(AccruedRemote)
                               - Last(local.history).amount)
    /\ how \in {"spend", "redo"} => verdict.ok

\* a spend made a day after the remote was last accrued was accepted
C5_Witness ==
  /\ how = "spend"
  /\ verdict.ok
  /\ verdict.class = "added"
  /\ LocalOneAhead
  /\ Last(local.history).amount > 0
  /\ Day(now) > Day(remote.last_updated)

\* C6: remote history [A,B] against local history [A,C], C # B, fails with the
\* "Histories are incompatible" classification (stated where the bound check
\* passes, as in the example of the specification).
C6_IncompatibleClass ==
  (/\ Verified
   /\ RedoWithinBound
   /\ Len(remote.history) = 2
   /\ Len(local.history) = 2
   /\ local.history[1] = remote.history[1]
   /\ local.history[2] # remote.history[2])
    => (~verdict.ok /\ verdict.class = "incompatible")

\* C7: ledgers that are not structurally equal and whose history lengths or
\* redo_stack lengths differ by more than 2 fail as "histories diverge",
\* whatever their prefixes are.
C7_BoundCheck ==
  (/\ Verified
   /\ ~DataEq(local, AccruedRemote)
   /\ \/ Abs(Len(AccruedRemote.history) - Len(local.history)) > 2
      \/ Abs(Len(AccruedRemote.redo_stack) - Len(local.redo_stack)) > 2)
    => (~verdict.ok /\ verdict.class = "diverge")

\* the redo stacks alone were too far apart, on histories one entry apart
\* that share no prefix
C7_Witness ==
  /\ verdict.class = "diverge"
  /\ Len(AccruedRemote.history) = Len(local.history) + 1
  /\ Front(AccruedRemote.history) # local.history
  /\ Abs(Len(AccruedRemote.redo_stack) - Len(local.redo_stack)) > 2

\* C8 as stated: with equal histories, equal total balances are accepted
\* (within the redo_stack bound) and different total balances fail as an
\* unclassified failure.
C8_FallbackAsStated ==
  (Verified /\ local.history = AccruedRemote.history) =>
    /\ (TotalBalance(local) = TotalBalance(AccruedRemote) /\ RedoWithinBound)
         => verdict.ok
    /\ TotalBalance(local) # TotalBalance(AccruedRemote)
         => (~verdict.ok /\ verdict.class = "unknown")

\* C8, amended: both halves hold where the redo_stack lengths differ by at
\* most 2.
C8_Fallback ==
  (Verified /\ local.history = AccruedRemote.history /\ RedoWithinBound) =>
    /\ TotalBalance(local) = TotalBalance(AccruedRemote) => verdict.ok
    /\ TotalBalance(local) # TotalBalance(AccruedRemote)
         => (~verdict.ok /\ verdict.class = "unknown")

\* ledgers differing in redo_stack, tables and the balance/debt split were
\* accepted on equal histories and totals
C8_Witness ==
  /\ verdict.ok
  /\ verdict.class = "fallback"
  /\ Len(local.history) > 0
  /\ local.redo_stack # AccruedRemote.redo_stack
  /\ local.cringe_factors # AccruedRemote.cringe_factors
  /\ local.synonyms # AccruedRemote.synonyms
  /\ local.balance # AccruedRemote.balance
  /\ local.debt # AccruedRemote.debt


\* C32: verify_against returns true only if the history lengths of local and
\* remote differ by at most 1, and, where they differ by exactly 1, only if
\* the shorter history is a prefix of the longer.
C32_OneEntryDifference ==
  (Verified /\ verdict.ok) =>
    /\ Abs(Len(local.history) - Len(remote.history)) <= 1
    /\ Len(local.history) = Len(remote.history) + 1
         => Front(local.history) = remote.history
    /\ Len(remote.history) = Len(local.history) + 1
         => Front(remote.history) = local.history

\* a local ledger one entry ahead of a non-empty remote history was accepted
C32_Witness ==
  /\ verdict.ok
  /\ verdict.class = "added"
  /\ Len(remote.history) > 0
  /\ Len(local.history) = Len(remote.history) + 1
  /\ Front(local.history) = remote.history

\* C28: from the default ledger, no sequence of accrual updates, spends (with
\* or without loan), undo, redo and garnish leaves a debt below zero.
C28_DebtNonNegative == ledger.debt >= 0

\* an accrual has repaid part of a garnished debt
C28_Witness ==
  /\ last.op = "update"
  /\ last.outcome = "done"
  /\ ledger.debt > 0
  /\ ledger.last_updated > 0

\* ------------------------------------------ main.rs: the ledger main uses
\* main.rs declares its own Data, HistoryItem and Budget and main calls
\* these, not the ones of data.rs: no version, debt, cringe_factors or
\* synonyms, no specific in an entry, no garnish.

\* Data::new of main.rs
MainDataNew(t) ==
  [history |-> <<>>, redo_stack |-> <<>>, balance |-> DefaultBalance,
   rate |-> Some(DefaultRate), last_updated |-> t]

\* #[derivative(PartialEq)] on main.rs's Data: every field but last_updated
MainDataEq(a, b) ==
  /\ a.history = b.history
  /\ a.redo_stack = b.redo_stack
  /\ a.balance = b.balance
  /\ a.rate = b.rate

\* an update without the assertion
MainUpdateUnchecked(d, t) == FALSE

\* Data::update of main.rs: the assertion fails
MainUpdatePanics(d, t) == Day(t) < Day(d.last_updated)

\* Data::update of main.rs
MainUpdate(d, rate, t) ==
  [d EXCEPT !.balance =
              F32(d.balance + F32((Day(t) - Day(d.last_updated)) * rate)),
            !.last_updated = t]

\* HistoryItem of main.rs
MainHistoryItem(amount, reason, t) ==
  [amount |-> amount, reason |-> reason, time |-> t]

\* Budget::undo of main.rs
MainUndoPanics(d) == Len(d.history) = 0

MainUndo(d) ==
  LET last_item == Last(d.history)
  IN [d EXCEPT !.history = Front(d.history),
               !.balance = F32(d.balance + last_item.amount),
               !.redo_stack = Append(d.redo_stack, last_item)]

\* Budget::redo of main.rs
MainRedoPanics(d) == Len(d.redo_stack) = 0

MainRedo(d) ==
  LET last_item == Last(d.redo_stack)
  IN [d EXCEPT !.redo_stack = Front(d.redo_stack),
               !.balance = F32(d.balance - last_item.amount),
               !.history = Append(d.history, last_item)]

\* Budget::spend of main.rs: the "Request is over budget!" branch
MainSpendRefused(d, amount, loan) == F32(d.balance - amount) < 0 /\ ~loan

\* Budget::spend of main.rs (amount <= 0 only prints a message)
MainSpend(d, amount, reason, loan, t) ==
  IF MainSpendRefused(d, amount, loan) THEN d
  ELSE [d EXCEPT !.history = Append(d.history,
                                    MainHistoryItem(amount, reason, t)),
                 !.balance = F32(d.balance - amount)]

\* Budget::set_cfg of main.rs, CfgKey::Rate
MainSetRate(d, rate) == [d EXCEPT !.rate = Some(rate)]

\* Budget::verify_against of main.rs: old_data_updated
MainOldDataUpdated(self, old_data, t) ==
  MainUpdate([old_data EXCEPT !.rate = self.rate], Unwrap(self.rate), t)

\* Budget::verify_against of main.rs panics where its update does
MainVerifyPanics(old_data, t) == MainUpdatePanics(old_data, t)

\* Budget::verify_against of main.rs: the result and the branch that gave it.
\* It compares balance, and it has no last comparison: ledgers with histories
\* of the same length that are not equal fail.
MainVerifyAgainst(self, old_data, t) ==
  LET o == MainOldDataUpdated(self, old_data, t)
  IN IF MainDataEq(self, o) THEN [ok |-> TRUE, class |-> "equal"]
     ELSE IF \/ Abs(Len(o.history) - Len(self.history)) > 2
             \/ Abs(Len(o.redo_stack) - Len(self.redo_stack)) > 2
          THEN [ok |-> FALSE, class |-> "diverge"]
     ELSE IF Len(o.history) > 0 /\ Len(o.history) > Len(self.history)
          THEN IF Front(o.history) = self.history
               THEN IF self.balance = F32(o.balance + Last(o.history).amount)
                    THEN [ok |-> TRUE, class |-> "undone"]
                    ELSE [ok |-> FALSE, class |-> "missing entry mismatch"]
               ELSE [ok |-> FALSE, class |-> "incompatible"]
     ELSE IF Len(self.history) > 0 /\ Len(self.history) > Len(o.history)
          THEN IF Front(self.history) = o.history
               THEN IF self.balance = F32(o.balance - Last(self.history).amount)
                    THEN [ok |-> TRUE, class |-> "added"]
                    ELSE [ok |-> FALSE, class |-> "new entry mismatch"]
               ELSE [ok |-> FALSE, class |-> "incompatible"]
     ELSE [ok |-> FALSE, class |-> "unknown"]

\* ------------------------------------------------- Spec: invocations of main
Procs == {1, 2}    \* the invocations that can be running at once

\* LocalDataProvider::new(): the directory used when config.json names none
DefaultDir == "/home/user/.config/budgetme"

\* a directory `cfg set path` is given
OtherDir == "/mnt/budget"

Dirs == {DefaultDir, OtherDir}

\* generate_bucket_name(): "bucket-" and eight random characters
GeneratedNames == {"bucket-k3x9q2ab", "bucket-p7m4z8wd"}

\* a bucket name, an access key and a secret key the user sets
UserBucket == "my-budget"
UserAccessKey == "AKIAEXAMPLE"
UserSecretKey == "wJalrEXAMPLEKEY"

Buckets == GeneratedNames \cup {UserBucket}

\* where a ledger can be persisted: data.json of a directory, or the object
\* data.json of a bucket
Places == Dirs \cup Buckets

\* DataSource::Local(LocalDataProvider{file_path})
LocalSource(dir) == [kind |-> "Local", file_path |-> dir]

\* DataSource::Aws(AwsS3DataProviderFactory{..}); region is always UsEast1
AwsSource(access_key, secret_access_key, bucket_name) ==
  [kind |-> "Aws", access_key |-> access_key,
   secret_access_key |-> secret_access_key, bucket_name |-> bucket_name]

\* full_path() of the local provider, bucket and key of the S3 provider
Place(src) == IF src.kind = "Local" THEN src.file_path ELSE src.bucket_name

NoCmd == [op |-> "none", amount |-> 0, reason |-> "", loan |-> FALSE,
          value |-> "", generated |-> ""]

\* budget.data, or old_data, of an invocation that has none yet
Unset == [unset |-> TRUE]

IsSet(d) == "unset" \notin DOMAIN d

\* the command lines an invocation can be given. "list" stands for no command,
\* list and cfg set region; "cfg get" for cfg get of any key; "set path" with
\* DefaultDir also for cfg set path none; generated is the name
\* generate_bucket_name() draws when cfg set provider aws runs
Commands ==
  {[NoCmd EXCEPT !.op = o] : o \in {"list", "undo", "redo", "cfg get"}}
  \cup {[NoCmd EXCEPT !.op = "spend", !.amount = Dollars(4), !.reason = "Cafe"],
        [NoCmd EXCEPT !.op = "spend", !.amount = Dollars(12), !.reason = "Cafe",
                      !.loan = TRUE],
        [NoCmd EXCEPT !.op = "set rate", !.amount = Dollars(1)]}
  \cup {[NoCmd EXCEPT !.op = "set path", !.value = d] : d \in Dirs}
  \cup {[NoCmd EXCEPT !.op = "set provider", !.value = "aws", !.generated = g] :
          g \in GeneratedNames}
  \cup {[NoCmd EXCEPT !.op = "set provider", !.value = v] : v \in {"local", "ftp"}}
  \cup {[NoCmd EXCEPT !.op = "set bucket name", !.value = UserBucket],
        [NoCmd EXCEPT !.op = "set access key", !.value = UserAccessKey],
        [NoCmd EXCEPT !.op = "set secret key", !.value = UserSecretKey]}

\* a file that fs::write has truncated, or that two writers have left with
\* the tail of the longer text after the shorter one: n bytes that do not
\* parse
Torn(n) == [torn |-> n]

IsTorn(x) == "torn" \in DOMAIN x

\* the decimal digits of a natural number
RECURSIVE Digits(_)
Digits(k) == IF k < 10 THEN 1 ELSE 1 + Digits(k \div 10)

\* serde_json's text of an f32 that is a multiple of 0.25: sign, integer
\* part, point, one or two decimals
NumLen(n) ==
  (IF n < 0 THEN 1 ELSE 0) + Digits(Abs(n) \div Unit) + 1
    + (IF Abs(n) % Unit \in {0, Unit \div 2} THEN 1 ELSE 2)

\* serde_json's text of a HistoryItem: {"amount":A,"reason":"S","time":T}
\* with a time of 13 digits
ItemLen(i) == 44 + NumLen(i.amount) + Len(i.reason)

RECURSIVE ItemsLen(_)
ItemsLen(items) ==
  IF Len(items) = 0 THEN 0
  ELSE ItemLen(items[1]) + (IF Len(items) > 1 THEN 1 ELSE 0)
         + ItemsLen(Tail(items))

\* serde_json::to_string(&data): the length of
\* {"history":[..],"redo_stack":[..],"balance":B,"last_updated":T,"rate":R}
SerLen(d) ==
  78 + ItemsLen(d.history) + ItemsLen(d.redo_stack) + NumLen(d.balance)
     + (IF IsNone(d.rate) THEN 4 ELSE NumLen(Unwrap(d.rate)))

\* serde_json::to_string(&budget.config): the length of
\* {"data_source":{"Local":{"file_path":"P"}}}, or of
\* {"data_source":{"Aws":{"access_key":"A","secret_access_key":"S",
\*  "bucket_name":"B","region":["us-east-1",null]}}}
ConfigLen(src) ==
  IF src.kind = "Local" THEN 42 + Len(src.file_path)
  ELSE 109 + Len(src.access_key) + Len(src.secret_access_key)
           + Len(src.bucket_name)

\* the bytes of a data.json holding x, and of a config.json holding x
DataFileLen(x) == IF IsTorn(x) THEN x.torn ELSE SerLen(x)
ConfigFileLen(x) == IF IsTorn(x) THEN x.torn ELSE ConfigLen(x)

\* the write of fs::write on a file of held bytes by now: the text new, of
\* len bytes, is written from offset 0, and what the file held beyond it stays
Written(held, new, len) == IF held > len THEN Torn(held) ELSE new

\* main, lines 487-505: the data source the invocation works with
ConfigSource(c) == IF IsNone(c) THEN LocalSource(DefaultDir) ELSE Unwrap(c)

\* serde_json::from_str(..).unwrap() on a file that exists
ReadPanics(file) == ~IsNone(file) /\ IsTorn(Unwrap(file))

\* what get() of the provider built from src can do now. The local provider
\* returns None when data.json is absent, else parses it or panics. The S3
\* provider returns None when the request fails, for want of the object or
\* of the bucket, or, failed, for want of credentials or of the network;
\* else it reads the body, which can fail (panic), and parses it
Gets(src) ==
  IF src.kind = "Local"
  THEN IF ReadPanics(store[Place(src)])
       THEN {[panics |-> TRUE, data |-> None, failed |-> FALSE]}
       ELSE {[panics |-> FALSE, data |-> store[Place(src)], failed |-> FALSE]}
  ELSE IF IsNone(store[Place(src)])
       THEN {[panics |-> FALSE, data |-> None, failed |-> FALSE]}
       ELSE {[panics |-> FALSE, data |-> store[Place(src)], failed |-> FALSE],
             [panics |-> FALSE, data |-> None, failed |-> TRUE],
             [panics |-> TRUE, data |-> None, failed |-> TRUE]}

\* unwrap_or(Data::new()): Data::new() reads the clock t
UnwrapOrNew(got, t) == IF IsNone(got) THEN MainDataNew(t) ELSE Unwrap(got)

\* main, lines 520-522
WithRate(d) == IF IsNone(d.rate) THEN [d EXCEPT !.rate = Some(DefaultRate)] ELSE d

\* main, lines 525-538: the command panics
CommandPanics(d, c, src) ==
  \/ c.op = "undo" /\ MainUndoPanics(d)
  \/ c.op = "redo" /\ MainRedoPanics(d)
  \/ c.op = "set provider" /\ c.value \notin {"aws", "local"}
  \/ c.op = "cfg get" /\ src.kind = "Aws"

\* main, lines 525-538: the ledger the command leaves
CommandResult(d, c, t) ==
  CASE c.op = "undo" -> MainUndo(d)
    [] c.op = "redo" -> MainRedo(d)
    [] c.op = "spend" -> MainSpend(d, c.amount, c.reason, c.loan, t)
    [] c.op = "set rate" -> MainSetRate(d, c.amount)
    [] OTHER -> d

\* budget.config.data_source as set_cfg leaves it and main writes it at line
\* 563, src being the data source the invocation started with
NewSource(src, c) ==
  CASE c.op = "set provider" /\ c.value = "aws" ->
         AwsSource("", "", c.generated)
    [] c.op = "set provider" /\ c.value = "local" -> LocalSource(DefaultDir)
    [] c.op = "set path" /\ src.kind = "Local" -> LocalSource(c.value)
    [] c.op = "set bucket name" /\ src.kind = "Aws" ->
         [src EXCEPT !.bucket_name = c.value]
    [] c.op = "set access key" /\ src.kind = "Aws" ->
         [src EXCEPT !.access_key = c.value]
    [] c.op = "set secret key" /\ src.kind = "Aws" ->
         [src EXCEPT !.secret_access_key = c.value]
    [] OTHER -> src

\* a put that does not ask verify_against
PutAlways(d, old_data, t) == TRUE

\* a put that also requires the persisted ledger to be what was fetched again
PutIfUnchanged(d, old_data, t) ==
  /\ MainVerifyAgainst(d, old_data, t).ok
  /\ \/ \A place \in Places : IsNone(store[place])
     \/ \E place \in Places : store[place] = Some(old_data)

\* main, line 567: the test guarding put
PutAllowed(d, old_data, t) == MainVerifyAgainst(d, old_data, t).ok

Ended == {"idle", "stored", "refused", "aborted"}

\* a ledger persisted by earlier invocations: two spends, the second undone
UsedLedger ==
  MainUndo(MainSpend(MainSpend(MainDataNew(0), Dollars(1), "coffee", FALSE, 0),
                     Dollars(2), "Cafe", FALSE, 0))

\* a ledger last written where the clock read a later day (another machine,
\* another time zone)
AheadLedger == MainDataNew(MaxNow)

\* what earlier invocations have left: no config.json and a data.json of the
\* default directory that holds nothing, a ledger in use, or a ledger written
\* ahead of this clock; or a config.json naming the S3 provider with the
\* user's bucket and keys, and a ledger in use in that bucket
InitialFiles ==
  {[config |-> None, place |-> DefaultDir, first |-> f] :
     f \in {None, Some(UsedLedger), Some(AheadLedger)}}
  \cup {[config |-> Some(AwsSource(UserAccessKey, UserSecretKey, UserBucket)),
         place |-> UserBucket, first |-> Some(UsedLedger)]}

Init ==
  /\ now = 0
  /\ \E files \in InitialFiles :
       /\ config = files.config
       /\ store = [place \in Places |->
                     IF place = files.place THEN files.first ELSE None]
  /\ pc = [p \in Procs |-> "idle"]
  /\ provider = [p \in Procs |-> NoData]
  /\ fetched = [p \in Procs |-> None]
  /\ budget = [p \in Procs |-> Unset]
  /\ cmd = [p \in Procs |-> NoCmd]
  /\ loaded = [p \in Procs |-> Unset]
  /\ old = [p \in Procs |-> Unset]
  /\ runs = 0
  /\ failures = 0
  /\ OpsIdle
  /\ VerifyIdle

\* the wall clock moves on
Clock ==
  /\ now < MaxNow
  /\ now' = now + 1
  /\ UNCHANGED <<sysVars, opsVars, verifyVars>>

\* main, lines 482-514: an invocation starts, reads config.json and builds
\* its provider; to_provider() of the S3 factory panics when no HTTP client
\* can be created
Start(p) ==
  /\ pc[p] \in Ended
  /\ runs < MaxRuns
  /\ runs' = runs + 1
  /\ \E c \in Commands : cmd' = [cmd EXCEPT ![p] = c]
  /\ IF ReadPanics(config)
     THEN /\ pc' = [pc EXCEPT ![p] = "aborted"]
          /\ provider' = [provider EXCEPT ![p] = NoData]
          /\ UNCHANGED failures
     ELSE /\ provider' = [provider EXCEPT ![p] = ConfigSource(config)]
          /\ \/ /\ pc' = [pc EXCEPT ![p] = "started"]
                /\ UNCHANGED failures
             \/ /\ ConfigSource(config).kind = "Aws"
                /\ failures < MaxFailures
                /\ failures' = failures + 1
                /\ pc' = [pc EXCEPT ![p] = "aborted"]
  /\ budget' = [budget EXCEPT ![p] = Unset]
  /\ loaded' = [loaded EXCEPT ![p] = Unset]
  /\ old' = [old EXCEPT ![p] = Unset]
  /\ UNCHANGED <<now, store, config, fetched, opsVars, verifyVars>>

\* main, lines 516-518: get() is awaited. The reads of one get are taken
\* where it is linearized: a get that overlaps a put sees the file before it,
\* after it, or torn
Get(p) ==
  /\ pc[p] = "started"
  /\ \E got \in Gets(provider[p]) :
       /\ got.failed => failures < MaxFailures
       /\ failures' = failures + (IF got.failed THEN 1 ELSE 0)
       /\ IF got.panics
          THEN /\ pc' = [pc EXCEPT ![p] = "aborted"]
               /\ UNCHANGED fetched
          ELSE /\ pc' = [pc EXCEPT ![p] = "read"]
               /\ fetched' = [fetched EXCEPT ![p] = got.data]
  /\ UNCHANGED <<now, store, config, provider, budget, cmd, loaded, old, runs,
                 opsVars, verifyVars>>

\* main, lines 518-523: Data::new() reads the clock, unwrap_or takes what
\* get() returned or that ledger, and a missing rate is set
New(p) ==
  /\ pc[p] = "read"
  /\ loaded' = [loaded EXCEPT ![p] = UnwrapOrNew(fetched[p], now)]
  /\ budget' = [budget EXCEPT ![p] = WithRate(UnwrapOrNew(fetched[p], now))]
  /\ fetched' = [fetched EXCEPT ![p] = None]
  /\ pc' = [pc EXCEPT ![p] = "got"]
  /\ UNCHANGED <<now, store, config, provider, cmd, old, runs, failures, opsVars,
                 verifyVars>>

\* main, line 524: the fetched ledger is accrued; update reads the clock anew
Accrue(p) ==
  /\ pc[p] = "got"
  /\ IF MainUpdatePanics(budget[p], now)
     THEN /\ pc' = [pc EXCEPT ![p] = "aborted"]
          /\ UNCHANGED budget
     ELSE /\ pc' = [pc EXCEPT ![p] = "loaded"]
          /\ budget' = [budget EXCEPT
                          ![p] = MainUpdate(budget[p], Unwrap(budget[p].rate), now)]
  /\ UNCHANGED <<now, store, config, provider, fetched, cmd, loaded, old, runs,
                 failures, opsVars, verifyVars>>

\* main, lines 525-538: the command runs on the loaded ledger
Command(p) ==
  /\ pc[p] = "loaded"
  /\ IF CommandPanics(budget[p], cmd[p], provider[p])
     THEN /\ pc' = [pc EXCEPT ![p] = "aborted"]
          /\ UNCHANGED budget
     ELSE /\ pc' = [pc EXCEPT ![p] = "ran"]
          /\ budget' = [budget EXCEPT ![p] = CommandResult(budget[p], cmd[p], now)]
  /\ UNCHANGED <<now, store, config, provider, fetched, cmd, loaded, old, runs,
                 failures, opsVars, verifyVars>>

\* main, lines 541-563: the provider is built again from the data source the
\* invocation started with (to_provider() of the S3 factory can panic), then
\* fs::write opens config.json and truncates it
ConfigTruncate(p) ==
  /\ pc[p] = "ran"
  /\ \/ /\ config' = Some(Torn(0))
        /\ pc' = [pc EXCEPT ![p] = "config open"]
        /\ UNCHANGED failures
     \/ /\ provider[p].kind = "Aws"
        /\ failures < MaxFailures
        /\ failures' = failures + 1
        /\ pc' = [pc EXCEPT ![p] = "aborted"]
        /\ UNCHANGED config
  /\ UNCHANGED <<now, store, provider, fetched, budget, cmd, loaded, old, runs,
                 opsVars, verifyVars>>

\* main, line 563: fs::write writes budget.config
ConfigWrite(p) ==
  /\ pc[p] = "config open"
  /\ config' = Some(Written(ConfigFileLen(Unwrap(config)),
                            NewSource(provider[p], cmd[p]),
                            ConfigLen(NewSource(provider[p], cmd[p]))))
  /\ pc' = [pc EXCEPT ![p] = "config written"]
  /\ UNCHANGED <<now, store, provider, fetched, budget, cmd, loaded, old, runs,
                 failures, opsVars, verifyVars>>

\* main, lines 564-566: the second get() is awaited, on the provider built
\* from the configuration read at the start (lines 541-556 use config, not
\* budget.config)
Refetch(p) ==
  /\ pc[p] = "config written"
  /\ \E got \in Gets(provider[p]) :
       /\ got.failed => failures < MaxFailures
       /\ failures' = failures + (IF got.failed THEN 1 ELSE 0)
       /\ IF got.panics
          THEN /\ pc' = [pc EXCEPT ![p] = "aborted"]
               /\ UNCHANGED fetched
          ELSE /\ pc' = [pc EXCEPT ![p] = "read again"]
               /\ fetched' = [fetched EXCEPT ![p] = got.data]
  /\ UNCHANGED <<now, store, config, provider, budget, cmd, loaded, old, runs,
                 opsVars, verifyVars>>

\* main, line 566: Data::new() reads the clock and unwrap_or gives old_data
OldNew(p) ==
  /\ pc[p] = "read again"
  /\ old' = [old EXCEPT ![p] = UnwrapOrNew(fetched[p], now)]
  /\ fetched' = [fetched EXCEPT ![p] = None]
  /\ pc' = [pc EXCEPT ![p] = "fetched"]
  /\ UNCHANGED <<now, store, config, provider, budget, cmd, loaded, runs,
                 failures, opsVars, verifyVars>>

\* main, line 567: verify_against, which reads the clock in update; a false
\* result ends the invocation with the refusal
Verify(p) ==
  /\ pc[p] = "fetched"
  /\ pc' = [pc EXCEPT ![p] =
              IF MainVerifyPanics(old[p], now) THEN "aborted"
              ELSE IF PutAllowed(budget[p], old[p], now) THEN "verified"
              ELSE "refused"]
  /\ UNCHANGED <<now, store, config, provider, fetched, budget, cmd, loaded,
                 old, runs, failures, opsVars, verifyVars>>

\* main, line 568, LocalDataProvider::put: fs::write opens data.json and
\* truncates it
PutTruncate(p) ==
  /\ pc[p] = "verified"
  /\ provider[p].kind = "Local"
  /\ store' = [store EXCEPT ![Place(provider[p])] = Some(Torn(0))]
  /\ pc' = [pc EXCEPT ![p] = "put open"]
  /\ UNCHANGED <<now, config, provider, fetched, budget, cmd, loaded, old, runs,
                 failures, opsVars, verifyVars>>

\* main, line 568, LocalDataProvider::put: fs::write writes the ledger
PutWrite(p) ==
  /\ pc[p] = "put open"
  /\ provider[p].kind = "Local"
  /\ store' = [store EXCEPT ![Place(provider[p])] =
                 Some(Written(DataFileLen(Unwrap(store[Place(provider[p])])),
                              budget[p], SerLen(budget[p])))]
  /\ pc' = [pc EXCEPT ![p] = "stored"]
  /\ UNCHANGED <<now, config, provider, fetched, budget, cmd, loaded, old, runs,
                 failures, opsVars, verifyVars>>

\* main, line 568, AwsS3DataProvider::put: create_bucket is awaited, with
\* expect on its result; a failed request panics
S3CreateBucket(p) ==
  /\ pc[p] = "verified"
  /\ provider[p].kind = "Aws"
  /\ \/ /\ pc' = [pc EXCEPT ![p] = "put open"]
        /\ UNCHANGED failures
     \/ /\ failures < MaxFailures
        /\ failures' = failures + 1
        /\ pc' = [pc EXCEPT ![p] = "aborted"]
  /\ UNCHANGED <<now, store, config, provider, fetched, budget, cmd, loaded,
                 old, runs, opsVars, verifyVars>>

\* main, line 568, AwsS3DataProvider::put: put_object is awaited, with expect
\* on its result. The object is replaced as a whole; a failed request panics,
\* and one whose response was lost has failed although the object was
\* replaced
S3PutObject(p) ==
  /\ pc[p] = "put open"
  /\ provider[p].kind = "Aws"
  /\ \/ /\ pc' = [pc EXCEPT ![p] = "stored"]
        /\ store' = [store EXCEPT ![Place(provider[p])] = Some(budget[p])]
        /\ UNCHANGED failures
     \/ /\ failures < MaxFailures
        /\ failures' = failures + 1
        /\ pc' = [pc EXCEPT ![p] = "aborted"]
        /\ \/ UNCHANGED store
           \/ store' = [store EXCEPT ![Place(provider[p])] = Some(budget[p])]
  /\ UNCHANGED <<now, config, provider, fetched, budget, cmd, loaded, old, runs,
                 opsVars, verifyVars>>

Next ==
  \/ Clock
  \/ \E p \in Procs : Start(p)
  \/ \E p \in Procs : Get(p)
  \/ \E p \in Procs : New(p)
  \/ \E p \in Procs : Accrue(p)
  \/ \E p \in Procs : Command(p)
  \/ \E p \in Procs : ConfigTruncate(p)
  \/ \E p \in Procs : ConfigWrite(p)
  \/ \E p \in Procs : Refetch(p)
  \/ \E p \in Procs : OldNew(p)
  \/ \E p \in Procs : Verify(p)
  \/ \E p \in Procs : PutTruncate(p)
  \/ \E p \in Procs : PutWrite(p)
  \/ \E p \in Procs : S3CreateBucket(p)
  \/ \E p \in Procs : S3PutObject(p)

Spec == Init /\ [][Next]_vars

\* ----------------------------------------------------------- claims on Spec
Range(seq) == {seq[i] : i \in 1..Len(seq)}

\* between p's first fetch and its reconciliation fetch another invocation
\* stored a ledger with one newly committed spend: what p fetched again is
\* what a spending invocation q stored, p's first fetch lacks q's new entry,
\* and no fetch failed
ConcurrentSpend(p) ==
  /\ Len(old[p].history) = Len(loaded[p].history) + 1
  /\ Front(old[p].history) = loaded[p].history
  /\ failures = 0
  /\ \E q \in Procs \ {p} :
       /\ pc[q] = "stored"
       /\ cmd[q].op = "spend"
       /\ budget[q] = old[p]

\* C1: an invocation that stored after another invocation committed a spend
\* between its two fetches has kept that spend: the entry the other
\* invocation added is in the history it stored.
C1_ConcurrentSpendKept ==
  \A p \in Procs :
    (pc[p] = "stored" /\ ConcurrentSpend(p))
      => Last(old[p].history) \in Range(budget[p].history)

\* p, verified, goes on to put: the local provider opens data.json, the S3
\* provider sends its first request, which succeeds or fails
PutStarted(p) ==
  \/ pc'[p] = "put open"
  \/ provider[p].kind = "Aws" /\ pc'[p] = "aborted"

\* p ends its put: the local provider has written data.json, the S3 provider
\* has sent the object, and the request succeeded or failed
PutEnded(p) ==
  \/ pc'[p] = "stored"
  \/ provider[p].kind = "Aws" /\ pc'[p] = "aborted"

\* the steps of put
Puts(p) == pc[p] \in {"verified", "put open"} /\ pc'[p] # pc[p]

\* C2: the persisted ledger changes only in the put of an invocation whose
\* verify_against of its ledger against the ledger it fetched again returned
\* true, and only in the directory or bucket of that invocation; what put
\* writes is the ledger that was verified (when a longer text of another
\* verified put landed after this put's truncation of data.json, its tail
\* stays behind it); an invocation whose verify returned false leaves the
\* persisted ledger as it was and never puts.
C2_StoreOnlyAfterVerify ==
  [][ /\ store' # store =>
           \E p \in Procs :
             /\ Puts(p)
             /\ \A place \in Places \ {Place(provider[p])} :
                  store'[place] = store[place]
             /\ pc'[p] \in {"stored", "aborted"} =>
                  \/ store'[Place(provider[p])] = Some(budget[p])
                  \/ IsTorn(Unwrap(store'[Place(provider[p])]))
      /\ \A p \in Procs :
           /\ (pc[p] # "verified" /\ pc'[p] = "verified") =>
                /\ pc[p] = "fetched"
                /\ ~MainVerifyPanics(old[p], now)
                /\ MainVerifyAgainst(budget[p], old[p], now).ok
           /\ (pc[p] # "put open" /\ pc'[p] = "put open") => pc[p] = "verified"
           /\ (pc[p] # "stored" /\ pc'[p] = "stored") => pc[p] = "put open"
           /\ pc[p] \in {"fetched", "verified", "put open"}
                => budget'[p] = budget[p]
           /\ (pc[p] = "fetched" /\ pc'[p] = "refused") =>
                /\ ~MainVerifyAgainst(budget[p], old[p], now).ok
                /\ store' = store
           /\ pc[p] = "refused" => pc'[p] \in {"refused", "started", "aborted"}
    ]_vars

\* one invocation was refused and left the ledger another one had stored
C2_Witness ==
  \E p, q \in Procs :
    /\ pc[p] = "refused"
    /\ pc[q] = "stored"
    /\ store[Place(provider[q])] = Some(budget[q])
    /\ provider[p] = provider[q]
    /\ budget[q] # budget[p]


\* C15: undo with empty history, redo with empty redo_stack and update of a
\* ledger whose last_updated lies on a later day than now each abort the
\* invocation with the ledger as it was; the persisted ledger is unchanged and
\* an aborted invocation goes no further (it never stores).
C15_AbortsWithoutMutation ==
  [][ /\ \A p \in Procs :
           /\ (/\ pc[p] = "loaded"
               /\ pc'[p] # "loaded"
               /\ \/ cmd[p].op = "undo" /\ Len(budget[p].history) = 0
                  \/ cmd[p].op = "redo" /\ Len(budget[p].redo_stack) = 0)
                => (pc'[p] = "aborted" /\ budget'[p] = budget[p] /\ store' = store)
           /\ (/\ pc[p] = "got"
               /\ pc'[p] # "got"
               /\ Day(now) < Day(budget[p].last_updated))
                => (pc'[p] = "aborted" /\ budget'[p] = budget[p] /\ store' = store)
           /\ pc[p] = "aborted" => pc'[p] \in {"aborted", "started"}
           /\ (pc[p] \notin {"aborted", "put open"} /\ pc'[p] = "aborted")
                => store' = store
      /\ store' # store => \E q \in Procs : Puts(q)
    ]_vars

\* one invocation was aborted by update on a ledger written ahead of the
\* clock, another one with a redo on an empty redo_stack
C15_Witness ==
  \E p, q \in Procs :
    /\ p # q
    /\ pc[p] = "aborted" /\ cmd[p].op = "list"
    /\ loaded[p] = AheadLedger
    /\ budget[p] = AheadLedger
    /\ old[p] = Unset
    /\ pc[q] = "aborted" /\ cmd[q].op = "redo"
    /\ IsSet(budget[q])
    /\ Len(budget[q].redo_stack) = 0
    /\ Day(now) >= Day(budget[q].last_updated)
    /\ store[DefaultDir] = Some(AheadLedger)


\* ------------------------------- SpecLaws: the methods on ledgers drawn at will
\* any ledger data.json can hold is a ledger the methods can be handed
ItemC == HistoryItem(41, "Cafe", NoSpecific, 0)       \* 10.25

\* a ledger where cafe and coffee are synonyms set after cafe was given the
\* factor 0.0 and coffee the factor 2.0
MixedTables ==
  CHOOSE d \in {SetSynonym(d2, "coffee", "Cafe") :
                  d2 \in UNION {SetCringe(d1, "coffee", 8) :
                                  d1 \in SetCringe(DataNew(0), "Cafe", 0)}} : TRUE

DrawnLedgers ==
  {[DataNew(lu) EXCEPT !.history = h, !.redo_stack = r, !.balance = b,
                       !.debt = debt, !.rate = Some(rate),
                       !.cringe_factors = tables.cringe_factors,
                       !.synonyms = tables.synonyms] :
     tables \in {DataNew(0), CafeTables, MixedTables},
     h \in {<<>>, <<ItemA>>, <<ItemA, ItemC>>},
     r \in {<<>>, <<ItemB>>},
     \* the last two balances are 4194304.0 and 8388608.0
     b \in {Dollars(-3), 0, Dollars(10), 16777216, 33554432},
     debt \in {0, Dollars(1), Dollars(4)},
     rate \in {Dollars(2), DefaultRate},
     lu \in 0..MaxNow}

\* the values set rate is given
SetRates == {Dollars(-5), 0, Dollars(1)}

Applied(op, before, outcome) == [op |-> op, before |-> before, outcome |-> outcome]

InitLaws ==
  /\ now \in 0..MaxNow
  /\ ledger \in DrawnLedgers
  /\ last = Applied("new", ledger, "done")
  /\ VerifyIdle
  /\ SysIdle

\* one method is applied to the drawn ledger, after set rate or not
Fresh == last.op \in {"new", "set rate"}

LawSetRate ==
  /\ last.op = "new"
  /\ \E rate \in SetRates : ledger' = SetRate(ledger, rate)
  /\ last' = Applied("set rate", ledger, "done")
  /\ UNCHANGED <<now, verifyVars, sysVars>>

LawUpdate ==
  /\ Fresh
  /\ last' = Applied("update", ledger,
                     IF UpdatePanics(ledger, now) THEN "panic" ELSE "done")
  /\ ledger' = IF UpdatePanics(ledger, now) THEN ledger
               ELSE Update(ledger, Unwrap(ledger.rate), now)
  /\ UNCHANGED <<now, verifyVars, sysVars>>

LawUndoRedo ==
  /\ Fresh
  /\ ~UndoPanics(ledger)
  /\ ledger' = Redo(Undo(ledger))
  /\ last' = Applied("undo redo", ledger, "done")
  /\ UNCHANGED <<now, verifyVars, sysVars>>

LawGarnish ==
  /\ Fresh
  /\ ledger' = Garnish(ledger)
  /\ last' = Applied("garnish", ledger, "done")
  /\ UNCHANGED <<now, verifyVars, sysVars>>

\* the smallest amount of the model: half a dollar
SmallestUnit == Unit \div 2

\* spend(balance + smallest unit): the sum is the caller's f32 sum, which is
\* the balance itself once the balance is so large that half a dollar is
\* half the spacing of its neighbours (33554432 quarter dollars)
LawSpend ==
  /\ Fresh
  /\ \E loan \in BOOLEAN, reason \in Reasons :
       \E factor \in GetCringiness(ledger, ToAsciiLowercase(reason)) :
         LET amount == F32(ledger.balance + SmallestUnit)
         IN /\ ledger' = Spend(ledger, amount, factor, reason, NoSpecific, loan, now)
            /\ last' = [op |-> "spend", before |-> ledger,
                        outcome |-> IF SpendRefused(ledger, amount, factor, loan)
                                    THEN "refused" ELSE "done",
                        factor |-> factor, loan |-> loan]
  /\ UNCHANGED <<now, verifyVars, sysVars>>

LawUndo ==
  /\ Fresh
  /\ ~UndoPanics(ledger)
  /\ ledger' = Undo(ledger)
  /\ last' = Applied("undo", ledger, "done")
  /\ UNCHANGED <<now, verifyVars, sysVars>>

LawRedo ==
  /\ Fresh
  /\ ~RedoPanics(ledger)
  /\ ledger' = Redo(ledger)
  /\ last' = Applied("redo", ledger, "done")
  /\ UNCHANGED <<now, verifyVars, sysVars>>

\* what a stale redo is made of: undo, then a spend that is accepted, then redo
StaleAmounts == {Dollars(1), Dollars(2)}

LawUndoSpendRedo ==
  /\ Fresh
  /\ ~UndoPanics(ledger)
  /\ \E amount \in StaleAmounts, reason \in Reasons :
       LET undone == Undo(ledger)
       IN \E factor \in GetCringiness(undone, ToAsciiLowercase(reason)) :
            /\ ~SpendRefused(undone, amount, factor, FALSE)
            /\ ledger' = Redo(Spend(undone, amount, factor, reason, NoSpecific,
                                    FALSE, now))
            /\ last' = [op |-> "undo spend redo", before |-> ledger,
                        outcome |-> "done", reason |-> reason,
                        spent |-> Scaled(amount, factor)]
  /\ UNCHANGED <<now, verifyVars, sysVars>>

\* update, then update again later on the same day (main accrues the loaded
\* ledger; verify_against accrues the ledger fetched again)
LawUpdateTwice ==
  /\ Fresh
  /\ ~UpdatePanics(ledger, now)
  /\ \E again \in now..(MaxNow + TicksPerDay) :
       /\ Day(again) = Day(now)
       /\ ledger' = Update(Update(ledger, Unwrap(ledger.rate), now),
                           Unwrap(ledger.rate), again)
       /\ last' = [op |-> "update twice", before |-> ledger, outcome |-> "done",
                   again |-> again]
  /\ UNCHANGED <<now, verifyVars, sysVars>>

\* the factors set cringe is given here: 1.0 and 2.0
LawFactors == {Unit, 2 * Unit}

LawSetCringe ==
  /\ Fresh
  /\ \E keyword \in Reasons, factor \in LawFactors :
       ledger' \in SetCringe(ledger, keyword, factor)
  /\ last' = Applied("set cringe", ledger, "done")
  /\ UNCHANGED <<now, verifyVars, sysVars>>

LawSetSynonym ==
  /\ Fresh
  /\ \E first \in Reasons, second \in Reasons :
       ledger' = SetSynonym(ledger, first, second)
  /\ last' = Applied("set synonym", ledger, "done")
  /\ UNCHANGED <<now, verifyVars, sysVars>>

NextLaws ==
  \/ LawSpend
  \/ LawSetRate
  \/ LawUpdate
  \/ LawUndoRedo
  \/ LawGarnish
  \/ LawUndo
  \/ LawRedo
  \/ LawUndoSpendRedo
  \/ LawUpdateTwice
  \/ LawSetCringe
  \/ LawSetSynonym

SpecLaws == InitLaws /\ [][NextLaws]_vars

\* ------------------------------------------------------- claims on SpecLaws
\* C11: on every ledger, whatever cringe factors it has,
\* spend(balance + smallest unit) without loan leaves the ledger as it was,
\* and with loan changes it and leaves balance < 0.
C11_BoundaryAsStated ==
  last.op = "spend" =>
    /\ ~last.loan => ledger = last.before
    /\ last.loan => (ledger # last.before /\ ledger.balance < 0)

\* C16: for every ledger L with a non-empty history, redo(undo(L)) equals L
\* on every field but last_updated.
C16_UndoRedoInverse ==
  last.op = "undo redo" =>
    /\ ledger.version = last.before.version
    /\ ledger.history = last.before.history
    /\ ledger.redo_stack = last.before.redo_stack
    /\ ledger.balance = last.before.balance
    /\ ledger.debt = last.before.debt
    /\ ledger.rate = last.before.rate
    /\ ledger.cringe_factors = last.before.cringe_factors
    /\ ledger.synonyms = last.before.synonyms

\* C17: garnish changes nothing when balance >= 0; when balance < 0 it adds
\* the magnitude of balance to debt and sets balance to 0, so that balance >= 0
\* and balance - debt is what it was; history and redo_stack are unchanged.
C17_GarnishEffect ==
  last.op = "garnish" =>
    LET b == last.before
    IN /\ b.balance >= 0 => ledger = b
       /\ b.balance < 0 =>
            /\ ledger.debt = F32(b.debt + (-b.balance))
            /\ ledger.balance = 0
            /\ F32(ledger.balance - ledger.debt) = F32(b.balance - b.debt)
       /\ ledger.balance >= 0
       /\ ledger.history = b.history
       /\ ledger.redo_stack = b.redo_stack

\* a negative balance was moved onto a debt already there
C17_Witness ==
  /\ last.op = "garnish"
  /\ last.before.balance < 0
  /\ last.before.debt > 0
  /\ ledger.debt > last.before.debt
  /\ Len(ledger.history) > 0

\* C18: update applied on the day of last_updated leaves balance and debt as
\* they were, for every ledger and every rate.
C18_NoAccrualSameDay ==
  (/\ last.op = "update"
   /\ last.outcome = "done"
   /\ Day(now) = Day(last.before.last_updated))
    => (ledger.balance = last.before.balance /\ ledger.debt = last.before.debt)

\* an update on the day of last_updated at a later clock reading, on a ledger
\* in debt whose rate is not zero
C18_Witness ==
  /\ last.op = "update"
  /\ last.outcome = "done"
  /\ Day(now) = Day(last.before.last_updated)
  /\ now > last.before.last_updated
  /\ ledger.last_updated = now
  /\ last.before.debt > 0
  /\ Unwrap(last.before.rate) < 0

\* C19: for every ledger with debt > 0 and every rate set rate accepts, the
\* debt after update is at most the debt before and at least 0.
C19_DebtMonotone ==
  (last.op = "update" /\ last.outcome = "done" /\ last.before.debt > 0)
    => (ledger.debt <= last.before.debt /\ ledger.debt >= 0)

\* C20: with gross = rate * elapsed days, update gives (a) debt = 0:
\* balance + gross; (b) debt > gross/2: debt - gross/2 and balance + gross/2;
\* (c) 0 < debt <= gross/2: debt 0 and balance + gross - debt; the debt repaid
\* is never more than half of gross (in magnitude), and last_updated is now.
C20_AccrualWithGarnishment ==
  (last.op = "update" /\ last.outcome = "done") =>
    LET b == last.before
        gross == Unwrap(b.rate) * (Day(now) - Day(b.last_updated))
        half == gross \div 2
        repaid == b.debt - ledger.debt
    IN /\ b.debt = 0 =>
            (ledger.debt = 0 /\ ledger.balance = F32(b.balance + gross))
       /\ b.debt > half /\ b.debt > 0 =>
            (ledger.debt = b.debt - half /\ ledger.balance = F32(b.balance + half))
       /\ (0 < b.debt /\ b.debt <= half) =>
            (ledger.debt = 0 /\ ledger.balance = F32(b.balance + gross - b.debt))
       /\ (IF repaid < 0 THEN -repaid ELSE repaid)
            <= (IF half < 0 THEN -half ELSE half)
       /\ ledger.last_updated = now

\* a day of gains cleared a debt of less than half of them
C20_Witness ==
  /\ last.op = "update"
  /\ last.outcome = "done"
  /\ last.before.debt > 0
  /\ ledger.debt = 0
  /\ ledger.balance > last.before.balance
  /\ ledger.balance < last.before.balance + Unwrap(last.before.rate)

\* C24: spend leaves redo_stack alone, so after undo (removing entry X), an
\* accepted spend Y and redo, history ends with Y followed by X, redo_stack is
\* as it was before the undo (X is no longer on it) and balance is the balance
\* before the undo minus the amount of Y.
C24_StaleRedo ==
  last.op = "undo spend redo" =>
    LET before == last.before
        n == Len(ledger.history)
    IN /\ n = Len(before.history) + 1
       /\ SubSeq(ledger.history, 1, n - 2) = Front(before.history)
       /\ ledger.history[n - 1] =
            HistoryItem(last.spent, last.reason, NoSpecific, now)
       /\ ledger.history[n] = Last(before.history)
       /\ ledger.redo_stack = before.redo_stack
       /\ ledger.balance = before.balance - last.spent

\* the sum of the amounts of the entries of a history
RECURSIVE SumAmounts(_)
SumAmounts(h) == IF h = <<>> THEN 0 ELSE Last(h).amount + SumAmounts(Front(h))

\* balance - debt + the amounts spent
Worth(d) == d.balance - d.debt + SumAmounts(d.history)

\* C30: balance - debt + (sum of the amounts in history) is left unchanged by
\* spend (accepted or refused), undo, redo and garnish, and grows by exactly
\* rate * elapsed days on update, however much of the gain goes to the debt.
C30_WorthConserved ==
  /\ last.op \in {"spend", "undo", "redo", "garnish"}
       => Worth(ledger) = Worth(last.before)
  /\ (last.op = "update" /\ last.outcome = "done")
       => Worth(ledger) = Worth(last.before)
            + Unwrap(last.before.rate)
                * (Day(now) - Day(last.before.last_updated))

\* C33: update applied twice in succession on one day leaves the balance and
\* the debt that a single update leaves, because the first update moves
\* last_updated to now and the second then sees no elapsed day.
C33_RepeatedAccrual ==
  last.op = "update twice" =>
    LET once == Update(last.before, Unwrap(last.before.rate), now)
    IN /\ ledger.balance = once.balance
       /\ ledger.debt = once.debt
       /\ ledger.last_updated = last.again

\* the first update accrued over at least one day and repaid part of a debt;
\* the second ran at a later time of that day
C33_Witness ==
  /\ last.op = "update twice"
  /\ Day(now) > Day(last.before.last_updated)
  /\ last.again > now
  /\ ledger.debt > 0
  /\ ledger.debt < last.before.debt
  /\ ledger.balance > last.before.balance

\* ------------------------------------------------- further claims on Spec
\* the ledger Data::new() builds: balance 10, rate 5 a day, nothing in history
\* or redo_stack (the Data of main.rs has no debt to be 0)
IsDefaultLedger(d) ==
  /\ d.balance = Dollars(10)
  /\ d.rate = Some(Dollars(5))
  /\ d.history = <<>>
  /\ d.redo_stack = <<>>

\* C22: a fetch that finds nothing persisted yields the default ledger, at
\* the initial load and at the reconciliation fetch alike; an invocation that
\* reaches its reconciliation check while nothing is persisted is checked
\* against that default, passes and stores its ledger.
C22_FetchMissAsStated ==
  [][ \A p \in Procs :
        /\ (pc[p] = "read" /\ pc'[p] = "got" /\ IsNone(fetched[p]))
             => (IsDefaultLedger(loaded'[p]) /\ budget'[p] = loaded'[p])
        /\ (pc[p] = "read again" /\ pc'[p] = "fetched" /\ IsNone(fetched[p]))
             => IsDefaultLedger(old'[p])
        /\ (pc[p] = "fetched" /\ pc'[p] # "fetched"
              /\ IsNone(store[Place(provider[p])]))
             => (IsDefaultLedger(old[p]) /\ pc'[p] = "verified")
        /\ (pc[p] = "verified" /\ pc'[p] # "verified") => PutStarted(p)
        /\ (pc[p] = "put open" /\ pc'[p] # "put open" /\ runs = 1)
             => /\ PutEnded(p)
                /\ pc'[p] = "stored"
                     => store'[Place(provider[p])] = Some(budget[p])
    ]_vars

\* C25: nothing guards the window between the reconciliation fetch and the
\* write: an invocation whose check succeeds against the snapshot it fetched
\* goes on to put, which truncates and rewrites data.json (or replaces the
\* object of the bucket) with no look at what is persisted by then. Hence the
\* interleaving of C25_Witness: two invocations check against the same
\* snapshot, both store, and the later store drops the spend the earlier one
\* committed.
C25_UnprotectedWindow ==
  [][ \A p \in Procs :
        /\ (/\ pc[p] = "fetched"
            /\ pc'[p] # "fetched"
            /\ ~MainVerifyPanics(old[p], now)
            /\ MainVerifyAgainst(budget[p], old[p], now).ok)
           => (pc'[p] = "verified" /\ store' = store)
        /\ (pc[p] = "verified" /\ pc'[p] # "verified")
           => /\ PutStarted(p)
              /\ provider[p].kind = "Local"
                   => store'[Place(provider[p])] = Some(Torn(0))
        /\ (pc[p] = "put open" /\ pc'[p] # "put open")
           => /\ PutEnded(p)
              /\ pc'[p] = "stored"
                   => \/ store'[Place(provider[p])] = Some(budget[p])
                      \/ IsTorn(Unwrap(store'[Place(provider[p])]))
    ]_vars

\* both invocations verified against one snapshot and stored; the ledger
\* persisted last lacks the spend the other invocation had stored
C25_Witness ==
  \E p, q \in Procs :
    /\ p # q
    /\ pc[p] = "stored" /\ pc[q] = "stored"
    /\ old[p] = old[q]
    /\ Len(old[p].history) > 0
    /\ cmd[p].op = "spend"
    /\ Len(budget[p].history) = Len(old[p].history) + 1
    /\ Last(budget[p].history) \notin Range(budget[q].history)
    /\ store[DefaultDir] = Some(budget[q])

\* the persisted ledger was not touched while p ran: what p fetched again is
\* what it had fetched first, and the day has not changed since p accrued it
Undisturbed(p) ==
  /\ old[p] = loaded[p]
  /\ Day(now) = Day(budget[p].last_updated)

\* C31: when nothing else writes the store during an invocation, every
\* operation that completes without a fatal error (list, accepted or refused
\* spend, undo, redo, and the cfg set commands) passes the reconciliation
\* check and its ledger is put, however many days have passed since the
\* persisted last_updated.
C31_NoFalseRefusal ==
  [][ \A p \in Procs :
        /\ (pc[p] = "fetched" /\ pc'[p] # "fetched" /\ Undisturbed(p))
             => pc'[p] = "verified"
        /\ (pc[p] = "verified" /\ pc'[p] # "verified") => PutStarted(p)
        /\ (pc[p] = "put open" /\ pc'[p] # "put open") => PutEnded(p)
    ]_vars


\* C29: history changes by at most one entry per operation and only at its
\* tail: an accepted spend and a redo append one entry, undo removes the last
\* one, and a refused spend, garnish, accrual and the configuration changes
\* (set rate, set cringe, set synonym) leave history as it was; no earlier
\* entry is touched.
C29_HistoryTailOnly ==
  LET h == last.before.history
      g == ledger.history
      appended == Len(g) = Len(h) + 1 /\ Front(g) = h
  IN CASE last.op = "spend" ->
            IF last.outcome = "refused" THEN g = h ELSE appended
       [] last.op = "redo" -> appended
       [] last.op = "undo" -> Len(h) > 0 /\ g = Front(h)
       [] last.op \in {"garnish", "update", "set rate", "set cringe",
                       "set synonym"} -> g = h
       [] OTHER -> TRUE

\* a redo has appended to a history that already held two entries
C29_Witness ==
  /\ last.op = "redo"
  /\ Len(last.before.history) = 2
  /\ Len(ledger.history) = 3
  /\ Front(ledger.history) = last.before.history


\* ------------------------ SpecTables: "set cringe" and "set synonym" calls
\* A fresh ledger receives up to MaxCfg configuration calls; last.trace keeps
\* the calls made so far, so a claim about a sequence of calls is an invariant.
MaxCfg == 3

Keywords == {"coffee", "Coffee", "Cafe", "Food"}
CringeFactors == {6, 8}                                   \* 1.5 and 2.0

CfgCall(op, first, second, factor) ==
  [op |-> op, first |-> first, second |-> second, factor |-> factor]

InitTables ==
  /\ now = 0
  /\ ledger = DataNew(0)
  /\ last = [op |-> "new", trace |-> <<>>]
  /\ VerifyIdle /\ SysIdle

\* Budget::set_cfg, ConfigOption::Synonym
TabSetSynonym ==
  /\ Len(last.trace) < MaxCfg
  /\ \E first \in Keywords, second \in Keywords :
       /\ ledger' = SetSynonym(ledger, first, second)
       /\ last' = [op |-> "set synonym",
                   trace |-> Append(last.trace,
                               CfgCall("set synonym", first, second, Unit))]
  /\ UNCHANGED <<now, verifyVars, sysVars>>

\* Budget::set_cfg, ConfigOption::Cringe
TabSetCringe ==
  /\ Len(last.trace) < MaxCfg
  /\ \E keyword \in Keywords, factor \in CringeFactors :
       /\ ledger' \in SetCringe(ledger, keyword, factor)
       /\ last' = [op |-> "set cringe",
                   trace |-> Append(last.trace,
                               CfgCall("set cringe", keyword, keyword, factor))]
  /\ UNCHANGED <<now, verifyVars, sysVars>>

NextTables == TabSetSynonym \/ TabSetCringe

SpecTables == InitTables /\ [][NextTables]_vars

\* the keywords that spell the same category as k
SameCategory(k, l) == ToAsciiLowercase(k) = ToAsciiLowercase(l)

\* the stored keys a lookup of k is about: k itself and its synonyms
Group(d, k) ==
  {ToAsciiLowercase(k)} \cup
  (IF HasSynonyms(d, k) THEN d.synonyms[ToAsciiLowercase(k)] ELSE {})

\* the factors stored for k or for one of its synonyms
StoredFactors(d, k) ==
  {d.cringe_factors[s] : s \in Group(d, k) \cap DOMAIN d.cringe_factors}

\* C21: on a ledger that holds no cringe factor, set_synonym(a, b) followed
\* by set_cringe(b, f) makes the multiplier of a and the multiplier of b equal
\* to f, whatever the letter case in which a and b are spelled.
C21_SynonymResolution ==
  LET t == last.trace
      n == Len(t)
  IN (/\ last.op = "set cringe"
      /\ n >= 2
      /\ t[n-1].op = "set synonym"
      /\ SameCategory(t[n].first, t[n-1].second)
      /\ \A i \in 1..(n-1) : t[i].op # "set cringe")
     => \A k \in Keywords :
          (SameCategory(k, t[n-1].first) \/ SameCategory(k, t[n-1].second))
          => GetCringiness(ledger, k) = {t[n].factor}

C21_Witness ==
  /\ last.op = "set cringe"
  /\ last.trace = <<CfgCall("set synonym", "coffee", "Cafe", Unit),
                    CfgCall("set cringe", "Cafe", "Cafe", 6)>>
  /\ GetCringiness(ledger, "Coffee") = {6}
  /\ GetCringiness(ledger, "cafe") = {6}

\* C26: the multiplier of a category is a stored factor whenever a factor is
\* stored for the category or for one of its synonyms, and 1.0 only when none
\* of them has one, for categories with and without a synonyms entry.
C26_StoredFactorReturned ==
  last.op \in {"set cringe", "set synonym"} =>
    \A k \in Keywords :
      IF StoredFactors(ledger, k) = {}
      THEN GetCringiness(ledger, k) = {Unit}
      ELSE GetCringiness(ledger, k) \subseteq StoredFactors(ledger, k)

\* C27: after any sequence of set_synonym and set_cringe calls a keyword and
\* each of its synonyms resolve to one and the same multiplier, and at most
\* one factor is stored among a keyword and its synonyms.
C27_GroupSharesFactor ==
  last.op \in {"set cringe", "set synonym"} =>
    \A k \in Keywords :
      /\ Cardinality(Group(ledger, k) \cap DOMAIN ledger.cringe_factors) <= 1
      /\ \A s \in Group(ledger, k) :
           /\ Cardinality(GetCringiness(ledger, k)) = 1
           /\ GetCringiness(ledger, s) = GetCringiness(ledger, k)

\* --------------------------- SpecThrift: Budget methods, no spend on loan
\* The ledger starts as in SpecOps (balance 10) and every spend is made with
\* loan = false.
ThriftAmounts == {Dollars(4), Dollars(6)}

ThriftSpend ==
  \E amount \in ThriftAmounts, reason \in SpendReasons, specific \in Specifics :
    \E factor \in GetCringiness(ledger, ToAsciiLowercase(reason)) :
      /\ SpendRefused(ledger, amount, factor, FALSE)
           \/ ItemCount(ledger) < MaxItems
      /\ ledger' = Spend(ledger, amount, factor, reason, specific, FALSE, now)
      /\ last' = [Called("spend", IF SpendRefused(ledger, amount, factor, FALSE)
                                  THEN "refused" ELSE "done")
                    EXCEPT !.amount = amount, !.factor = factor,
                           !.reason = reason]
      /\ UNCHANGED <<now, verifyVars, sysVars>>

NextThrift ==
  \/ OpsClock
  \/ OpsUpdate
  \/ ThriftSpend
  \/ OpsUndo
  \/ OpsRedo
  \/ OpsGarnish

SpecThrift == InitOps /\ [][NextThrift]_vars

\* C23: from a ledger with balance >= 0, no sequence of spends without loan,
\* undo, redo, garnish and accrual reaches a balance below zero.
C23_NegativeOnlyByLoan == ledger.balance >= 0

=============================================================================
